---------------------------- MODULE Spec2Model ----------------------------
(***************************************************************************)
(* Model of the reliable-datagram stream of the Dark Souls 3 open server   *)
(* (Frpg2ReliableUdpPacketStream.cpp) and of the two endpoints that speak  *)
(* it over an unreliable datagram network.                                 *)
(*                                                                         *)
(* Time.  The code stores timestamps (GetSeconds()) and compares           *)
(* differences against thresholds.  The model stores the elapsed time      *)
(* since each timestamp instead (an "age"): writing a timestamp sets the   *)
(* age to 0, the Tick action adds one to every age, and ages saturate at   *)
(* TimeCap, which is above every threshold, so every comparison            *)
(* "GetSeconds() - T > X" has the same truth value as in the code.         *)
(***************************************************************************)
EXTENDS Integers, Sequences, FiniteSets, TLC

(***************************************************************************)
(* Constants of Frpg2ReliableUdpPacketStream.h (the header is not part of  *)
(* the sources; values follow the specification, with the sequence space   *)
(* and the time thresholds scaled down).                                   *)
(***************************************************************************)
MAX_ACK_VALUE == 16

MAX_ACK_VALUE_TOP_QUART == (MAX_ACK_VALUE \div 4) * 3

MAX_ACK_VALUE_BOTTOM_QUART == MAX_ACK_VALUE \div 4

START_SEQUENCE_INDEX == 1

MAX_PACKETS_IN_FLIGHT == 2

RETRANSMIT_INTERVAL == 1

RETRANSMIT_CYCLE_INTERVAL == 1

MIN_TIME_BETWEEN_RESEND_ACK == 1

RESEND_SYN_INTERVAL == 1

CONNECTION_CLOSE_TIMEOUT == 1

\* Saturation value of every age: one above the largest threshold.
TimeCap == 2

\* The age of a timestamp that was never written (0.0 in the code).
NeverSet == TimeCap

Endpoints == {"client", "server"}

Peer(e) == IF e = "client" THEN "server" ELSE "client"

(***************************************************************************)
(* Packets.  A reliable packet is its header (opcode and the two ack       *)
(* counters), its payload and the time it was queued.  Payloads are        *)
(* abstract: 0 is the empty payload, a positive number an application      *)
(* message.                                                                *)
(***************************************************************************)
EmptyPayload == 0

SynPayload == -1

SynAckPayload == -2

Packet(op, local, remote, payload) ==
    [opcode |-> op, local |-> local, remote |-> remote,
     payload |-> payload, SendTime |-> 0]

\* The bytes of a packet: header and payload, without the bookkeeping.
Bytes(p) == [opcode |-> p.opcode, local |-> p.local, remote |-> p.remote,
             payload |-> p.payload]

IsOpcodeSequenced(Opcode) == Opcode \in {"DAT", "DAT_ACK", "FIN_ACK"}

\* EncodeReliablePacket: the datagram payload is the reliable header and
\* payload, preceded by the steam-id block when the packet is a SYN.
EncodeReliablePacket(Input) ==
    [HasConnectionPrefix |-> Input.opcode = "SYN",
     InitialData |-> IF Input.opcode = "SYN" THEN <<"steam_id", "steam_id">>
                     ELSE <<>>,
     Header |-> [opcode |-> Input.opcode, local |-> Input.local,
                 remote |-> Input.remote],
     Payload |-> Input.payload]

\* HandleIncoming strips the steam-id block; DecodeReliablePacket copies
\* header and payload out of what is left.
DecodeReliablePacket(Datagram) ==
    Packet(Datagram.Header.opcode, Datagram.Header.local,
           Datagram.Header.remote, Datagram.Payload)

GetNextRemoteSequenceIndex(s) == (s.RemoteSequenceIndex + 1) % MAX_ACK_VALUE

\* GetPacketIndexByLocalSequence(Queue, SequenceIndex) >= 0
HasPacketWithLocalSequence(Queue, SequenceIndex) ==
    \E i \in 1..Len(Queue) : Queue[i].local = SequenceIndex

\* The crude wrap-aware update used for SequenceIndexAcked.
UpdateSequenceIndexAcked(s, InRemoteAck) ==
    IF s.SequenceIndexAcked > MAX_ACK_VALUE_TOP_QUART
       /\ InRemoteAck < MAX_ACK_VALUE_BOTTOM_QUART
    THEN [s EXCEPT !.SequenceIndexAcked = InRemoteAck]
    ELSE [s EXCEPT !.SequenceIndexAcked =
                       IF @ >= InRemoteAck THEN @ ELSE InRemoteAck]

(***************************************************************************)
(* The stream object.  Sent is the list of datagrams the last operation    *)
(* handed to the datagram layer (Frpg2UdpPacketStream::Send).              *)
(***************************************************************************)
Reset(s) ==
    [s EXCEPT !.SequenceIndex = START_SEQUENCE_INDEX,
              !.SequenceIndexAcked = 0,
              !.RemoteSequenceIndex = 0,
              !.RemoteSequenceIndexAcked = 0,
              !.PendingRecieveQueue = <<>>,
              !.RecieveQueue = <<>>,
              !.SendQueue = <<>>,
              !.RetransmitBuffer = <<>>]

NewStream ==
    Reset([State |-> "Listening",
           SequenceIndex |-> 0,
           SequenceIndexAcked |-> 0,
           RemoteSequenceIndex |-> 0,
           RemoteSequenceIndexAcked |-> 0,
           PendingRecieveQueue |-> <<>>,
           RecieveQueue |-> <<>>,
           SendQueue |-> <<>>,
           RetransmitBuffer |-> <<>>,
           DatAckResponses |-> {},
           ExpectedDatAckResponses |-> {},
           IsRetransmitting |-> FALSE,
           RetransmittingIndex |-> 0,
           RetransmitPacket |-> Packet("Unset", 0, 0, EmptyPayload),
           RetransmissionTimer |-> NeverSet,
           LastAckSendTime |-> NeverSet,
           ResendSynTimer |-> NeverSet,
           CloseTimer |-> NeverSet,
           CloseTimerSet |-> FALSE,
           InErrorState |-> FALSE,
           Sent |-> <<>>])

SendRaw(s, Input) ==
    [s EXCEPT !.Sent = Append(@, EncodeReliablePacket(Input))]

\* A Send that does not swallow packets while the stream is closing.
Send_WhileClosing(s, Input) ==
    IF IsOpcodeSequenced(Input.opcode) \/ Input.opcode = "Unset"
    THEN LET Stamped == [Input EXCEPT !.SendTime = 0]
             SentPacket ==
                 IF Input.opcode = "Unset"
                 THEN [Stamped EXCEPT
                          !.local = s.SequenceIndex,
                          !.opcode = IF Input.remote > 0 THEN "DAT_ACK"
                                     ELSE "DAT"]
                 ELSE Stamped
             s1 == IF Input.opcode = "Unset" /\ Input.remote > 0
                   THEN [s EXCEPT
                           !.DatAckResponses = @ \cup {Input.remote},
                           !.RemoteSequenceIndexAcked = Input.remote]
                   ELSE s
         IN  [s1 EXCEPT
                !.SequenceIndex = (@ + 1) % MAX_ACK_VALUE,
                !.SendQueue = Append(@, SentPacket)]
    ELSE SendRaw(s, Input)

Send(s, Input) ==
    IF s.State = "Closing" THEN s
    ELSE IF IsOpcodeSequenced(Input.opcode) \/ Input.opcode = "Unset"
    THEN LET Stamped == [Input EXCEPT !.SendTime = 0]
             SentPacket ==
                 IF Input.opcode = "Unset"
                 THEN [Stamped EXCEPT
                          !.local = s.SequenceIndex,
                          !.opcode = IF Input.remote > 0 THEN "DAT_ACK"
                                     ELSE "DAT"]
                 ELSE Stamped
             s1 == IF Input.opcode = "Unset" /\ Input.remote > 0
                   THEN [s EXCEPT
                           !.DatAckResponses = @ \cup {Input.remote},
                           !.RemoteSequenceIndexAcked = Input.remote]
                   ELSE s
         IN  [s1 EXCEPT
                !.SequenceIndex = (@ + 1) % MAX_ACK_VALUE,
                !.SendQueue = Append(@, SentPacket)]
    ELSE SendRaw(s, Input)

Send_SYN(s) ==
    Send(s, Packet("SYN", s.SequenceIndex, 0, SynPayload))

\* A Send_SYN_ACK that leaves the sequence index alone.
Send_SYN_ACK_NoBump(s, RemoteIndex) ==
    LET s1 == Send(s, Packet("SYN_ACK", s.SequenceIndex, RemoteIndex,
                             SynAckPayload))
    IN  [s1 EXCEPT !.RemoteSequenceIndex = RemoteIndex]

Send_SYN_ACK(s, RemoteIndex) ==
    LET s1 == Send(s, Packet("SYN_ACK", s.SequenceIndex, RemoteIndex,
                             SynAckPayload))
    IN  [s1 EXCEPT !.RemoteSequenceIndex = RemoteIndex,
                   !.SequenceIndex = (@ + 1) % MAX_ACK_VALUE]

Send_ACK(s, RemoteIndex) ==
    LET s1 == Send(s, Packet("ACK", 0, RemoteIndex, EmptyPayload))
    IN  [s1 EXCEPT !.RemoteSequenceIndexAcked = RemoteIndex,
                   !.LastAckSendTime = 0]

Send_DAT_ACK(s, LocalIndex, RemoteIndex) ==
    LET s1 == Send(s, Packet("DAT_ACK", LocalIndex, RemoteIndex, EmptyPayload))
    IN  [s1 EXCEPT !.RemoteSequenceIndexAcked = RemoteIndex,
                   !.LastAckSendTime = 0]

Send_FIN_ACK(s, RemoteIndex) ==
    Send(s, Packet("FIN_ACK", s.SequenceIndex, RemoteIndex, EmptyPayload))

Send_FIN(s) ==
    LET s1 == Send(s, Packet("FIN", s.SequenceIndex, 0, EmptyPayload))
    IN  [s1 EXCEPT !.State = "Closing",
                   !.CloseTimer = 0,
                   !.CloseTimerSet = TRUE]

Send_HBT(s) ==
    Send(s, Packet("HBT", 0, s.RemoteSequenceIndexAcked, EmptyPayload))

(***************************************************************************)
(* Opcode handlers.                                                        *)
(***************************************************************************)
\* Handle_SYN answering with the ACK ahead of the SYN_ACK.
Handle_SYN_AckFirst(s, Pkt) ==
    LET s1 == [s EXCEPT !.State = "SynRecieved"]
        s2 == Send_ACK(s1, Pkt.local)
    IN  Send_SYN_ACK(s2, Pkt.local)

Handle_SYN(s, Pkt) ==
    LET s1 == [s EXCEPT !.State = "SynRecieved"]
        s2 == Send_SYN_ACK(s1, Pkt.local)
    IN  Send_ACK(s2, Pkt.local)

Handle_SYN_ACK(s, Pkt) ==
    LET s1 == [s EXCEPT !.State = "SynRecieved",
                        !.RemoteSequenceIndex = Pkt.local]
        s2 == Send_ACK(s1, s1.RemoteSequenceIndex)
    IN  [s2 EXCEPT !.SequenceIndex = (@ + 1) % MAX_ACK_VALUE]

Handle_HBT(s, Pkt) ==
    Send_HBT(UpdateSequenceIndexAcked(s, Pkt.remote))

Handle_FIN(s, Pkt) ==
    LET s1 == Send_FIN_ACK(s, Pkt.local)
    IN  [s1 EXCEPT !.State = "Closing"]

Handle_FIN_ACK(s, Pkt) ==
    [s EXCEPT !.State = "Closing"]

\* Handle_RST without the change of state.
Handle_RST_KeepsState(s, Pkt) == Reset(s)

Handle_RST(s, Pkt) ==
    Reset([s EXCEPT !.State = "Listening"])

Handle_ACK(s, Pkt) ==
    LET s1 == IF s.State = "SynRecieved"
              THEN [s EXCEPT !.State = "Established"]
              ELSE s
    IN  UpdateSequenceIndexAcked(s1, Pkt.remote)

Handle_RACK(s, Pkt) == s

Handle_DAT(s, Pkt) ==
    LET s1 == [s EXCEPT !.ExpectedDatAckResponses = @ \cup {Pkt.local},
                        !.RecieveQueue = Append(@, Pkt)]
    IN  Send_ACK(s1, Pkt.local)

Handle_DAT_ACK(s, Pkt) ==
    LET s1 == UpdateSequenceIndexAcked(s, Pkt.remote)
        s2 == Send_ACK(s1, Pkt.local)
    IN  [s2 EXCEPT !.RecieveQueue = Append(@, Pkt)]

ProcessPacket(s, Pkt) ==
    CASE Pkt.opcode = "SYN"     -> Handle_SYN(s, Pkt)
      [] Pkt.opcode = "SYN_ACK" -> Handle_SYN_ACK(s, Pkt)
      [] Pkt.opcode = "DAT"     -> Handle_DAT(s, Pkt)
      [] Pkt.opcode = "HBT"     -> Handle_HBT(s, Pkt)
      [] Pkt.opcode = "FIN"     -> Handle_FIN(s, Pkt)
      [] Pkt.opcode = "RST"     -> Handle_RST(s, Pkt)
      [] Pkt.opcode = "ACK"     -> Handle_ACK(s, Pkt)
      [] Pkt.opcode = "RACK"    -> Handle_RACK(s, Pkt)
      [] Pkt.opcode = "DAT_ACK" -> Handle_DAT_ACK(s, Pkt)
      [] Pkt.opcode = "FIN_ACK" -> Handle_FIN_ACK(s, Pkt)

\* HandleIncomingPacket without the check of the state.
HandleIncomingPacket_AnyState(s, Pkt) ==
    IF IsOpcodeSequenced(Pkt.opcode)
    THEN LET IsInCorrectSequence ==
                 \/ Pkt.local # GetNextRemoteSequenceIndex(s)
                 \/ HasPacketWithLocalSequence(s.PendingRecieveQueue,
                                               Pkt.local)
         IN  IF IsInCorrectSequence
                /\ s.LastAckSendTime > MIN_TIME_BETWEEN_RESEND_ACK
             THEN Send_ACK(s, s.RemoteSequenceIndexAcked)
             ELSE IF ~IsInCorrectSequence
             THEN [s EXCEPT !.PendingRecieveQueue = Append(@, Pkt)]
             ELSE s
    ELSE ProcessPacket(s, Pkt)

\* HandleIncomingPacket answering an out-of-sequence packet with an ACK of
\* that packet's own sequence.
HandleIncomingPacket_AckOwn(s, Pkt) ==
    IF IsOpcodeSequenced(Pkt.opcode)
    THEN IF s.State # "Established"
         THEN [s EXCEPT !.InErrorState = TRUE]
         ELSE LET IsInCorrectSequence ==
                      \/ Pkt.local # GetNextRemoteSequenceIndex(s)
                      \/ HasPacketWithLocalSequence(s.PendingRecieveQueue,
                                                    Pkt.local)
              IN  IF IsInCorrectSequence
                     /\ s.LastAckSendTime > MIN_TIME_BETWEEN_RESEND_ACK
                  THEN Send_ACK(s, Pkt.local)
                  ELSE IF ~IsInCorrectSequence
                  THEN [s EXCEPT !.PendingRecieveQueue = Append(@, Pkt)]
                  ELSE s
    ELSE ProcessPacket(s, Pkt)

\* The local variable the code calls IsInCorrectSequence is TRUE when the
\* packet is NOT the next one in sequence, or is already pending.
HandleIncomingPacket(s, Pkt) ==
    IF IsOpcodeSequenced(Pkt.opcode)
    THEN IF s.State # "Established"
         THEN [s EXCEPT !.InErrorState = TRUE]
         ELSE LET IsInCorrectSequence ==
                      \/ Pkt.local # GetNextRemoteSequenceIndex(s)
                      \/ HasPacketWithLocalSequence(s.PendingRecieveQueue,
                                                    Pkt.local)
              IN  IF IsInCorrectSequence
                     /\ s.LastAckSendTime > MIN_TIME_BETWEEN_RESEND_ACK
                  THEN Send_ACK(s, s.RemoteSequenceIndexAcked)
                  ELSE IF ~IsInCorrectSequence
                  THEN [s EXCEPT !.PendingRecieveQueue = Append(@, Pkt)]
                  ELSE s
    ELSE ProcessPacket(s, Pkt)

\* First loop of HandleIncoming: every datagram the datagram layer holds.
RECURSIVE RecieveLoop(_, _)
RecieveLoop(s, Datagrams) ==
    IF Datagrams = <<>> THEN s
    ELSE RecieveLoop(HandleIncomingPacket(s, DecodeReliablePacket(Head(Datagrams))),
                     Tail(Datagrams))

\* Second loop of HandleIncoming: the head of the pending queue, while it is
\* the next packet in sequence.
RECURSIVE PendingLoop(_)
PendingLoop(s) ==
    IF s.PendingRecieveQueue # <<>>
       /\ Head(s.PendingRecieveQueue).local = GetNextRemoteSequenceIndex(s)
    THEN LET s1 == ProcessPacket(s, Head(s.PendingRecieveQueue))
         IN  PendingLoop([s1 EXCEPT
                 !.PendingRecieveQueue = Tail(@),
                 !.RemoteSequenceIndex = (@ + 1) % MAX_ACK_VALUE])
    ELSE s

HandleIncoming(s, Datagrams) == PendingLoop(RecieveLoop(s, Datagrams))

(***************************************************************************)
(* HandleOutgoing.                                                         *)
(***************************************************************************)
\* The test that trims a packet off the retransmit buffer.
IsAcknowledged(InLocalAck, SequenceIndexAcked) ==
    \/ /\ InLocalAck > MAX_ACK_VALUE_TOP_QUART
       /\ SequenceIndexAcked < MAX_ACK_VALUE_BOTTOM_QUART
    \/ InLocalAck <= SequenceIndexAcked

TrimRetransmitBuffer(s) ==
    [s EXCEPT !.RetransmitBuffer =
        SelectSeq(@, LAMBDA p : ~IsAcknowledged(p.local, s.SequenceIndexAcked))]

\* The loop that starts a retransmit: it visits every packet of the buffer
\* and has no break, so every packet older than RETRANSMIT_INTERVAL is sent
\* and the last of them becomes RetransmitPacket.
RECURSIVE StartRetransmitLoop(_, _)
StartRetransmitLoop(s, i) ==
    IF i > Len(s.RetransmitBuffer) THEN s
    ELSE LET Pkt == s.RetransmitBuffer[i]
         IN  IF Pkt.SendTime > RETRANSMIT_INTERVAL
             THEN StartRetransmitLoop(
                      [SendRaw(s, Pkt) EXCEPT
                          !.IsRetransmitting = TRUE,
                          !.RetransmittingIndex = Pkt.local,
                          !.RetransmitPacket = Pkt,
                          !.RetransmissionTimer = 0], i + 1)
             ELSE StartRetransmitLoop(s, i + 1)

ContinueRetransmit(s) ==
    IF \/ /\ s.RetransmittingIndex > MAX_ACK_VALUE_TOP_QUART
          /\ s.SequenceIndexAcked < MAX_ACK_VALUE_BOTTOM_QUART
       \/ s.SequenceIndexAcked >= s.RetransmittingIndex
    THEN [s EXCEPT !.IsRetransmitting = FALSE]
    ELSE IF s.RetransmissionTimer > RETRANSMIT_CYCLE_INTERVAL
    THEN SendRaw([s EXCEPT !.RetransmissionTimer = 0], s.RetransmitPacket)
    ELSE s

\* The loop that moves the send queue to the wire.
\* CanSendNext admitting one packet more.
CanSendNext_OneMore(s) ==
    /\ ~s.IsRetransmitting
    /\ Len(s.SendQueue) > 0
    /\ Len(s.RetransmitBuffer) <= MAX_PACKETS_IN_FLIGHT

CanSendNext(s) ==
    /\ ~s.IsRetransmitting
    /\ Len(s.SendQueue) > 0
    /\ Len(s.RetransmitBuffer) < MAX_PACKETS_IN_FLIGHT

\* A send loop that takes the newest packet of the queue first.
RECURSIVE SendQueueLoop_NewestFirst(_)
SendQueueLoop_NewestFirst(s) ==
    IF CanSendNext(s)
    THEN LET Pkt == s.SendQueue[Len(s.SendQueue)]
         IN  SendQueueLoop_NewestFirst(SendRaw(
                 [s EXCEPT !.SendQueue = SubSeq(@, 1, Len(@) - 1),
                           !.RetransmitBuffer = Append(@, Pkt)], Pkt))
    ELSE s

RECURSIVE SendQueueLoop(_)
SendQueueLoop(s) ==
    IF CanSendNext(s)
    THEN LET Pkt == Head(s.SendQueue)
         IN  SendQueueLoop(SendRaw(
                 [s EXCEPT !.SendQueue = Tail(@),
                           !.RetransmitBuffer = Append(@, Pkt)], Pkt))
    ELSE s

HandleOutgoing(s) ==
    LET s1 == TrimRetransmitBuffer(s)
        s2 == IF ~s1.IsRetransmitting
              THEN StartRetransmitLoop(s1, 1)
              ELSE ContinueRetransmit(s1)
    IN  SendQueueLoop(s2)

(***************************************************************************)
(* Pump.  The result is the stream after the call, the value returned and  *)
(* whether the datagrams held by the datagram layer were read.             *)
(***************************************************************************)
\* Frpg2UdpPacketStream::Pump: TRUE when the stream is in the error state.
UdpPump(s) == s.InErrorState

\* A pump that never repeats the SYN.
ResendSyn_Never(s) == s

ResendSyn(s) ==
    IF s.State = "Connecting" /\ s.ResendSynTimer > RESEND_SYN_INTERVAL
    THEN [Send_SYN(s) EXCEPT !.ResendSynTimer = 0]
    ELSE s

CloseTimedOut(s) ==
    /\ s.CloseTimerSet
    /\ s.State = "Closing"
    /\ s.CloseTimer > CONNECTION_CLOSE_TIMEOUT

\* A pump without the check for a closed stream.
Pump_ClosedGoesOn(s0, Datagrams) ==
    LET s  == [s0 EXCEPT !.Sent = <<>>]
        sa == IF s.State = "Closing" /\ Len(s.SendQueue) = 0
              THEN [s EXCEPT !.State = "Closed"]
              ELSE s
    IN  IF UdpPump(sa)
        THEN [s |-> sa, Ret |-> TRUE, Read |-> FALSE]
        ELSE LET sb == ResendSyn(sa)
             IN  IF CloseTimedOut(sb)
                 THEN [s |-> [sb EXCEPT !.State = "Closed"],
                       Ret |-> TRUE, Read |-> FALSE]
                 ELSE [s |-> HandleOutgoing(HandleIncoming(sb, Datagrams)),
                       Ret |-> FALSE, Read |-> TRUE]

Pump(s0, Datagrams) ==
    LET s  == [s0 EXCEPT !.Sent = <<>>]
        sa == IF s.State = "Closing" /\ Len(s.SendQueue) = 0
              THEN [s EXCEPT !.State = "Closed"]
              ELSE s
    IN  IF sa.State = "Closed"
        THEN [s |-> Reset(sa), Ret |-> TRUE, Read |-> FALSE]
        ELSE IF UdpPump(sa)
        THEN [s |-> sa, Ret |-> TRUE, Read |-> FALSE]
        ELSE LET sb == ResendSyn(sa)
             IN  IF CloseTimedOut(sb)
                 THEN [s |-> [sb EXCEPT !.State = "Closed"],
                       Ret |-> TRUE, Read |-> FALSE]
                 ELSE [s |-> HandleOutgoing(HandleIncoming(sb, Datagrams)),
                       Ret |-> FALSE, Read |-> TRUE]

(***************************************************************************)
(* The other public operations.                                            *)
(***************************************************************************)
Connect(s0) ==
    LET s == [s0 EXCEPT !.Sent = <<>>]
    IN  Send_SYN([s EXCEPT !.State = "Connecting", !.ResendSynTimer = 0])

Disconnect(s0) ==
    LET s == [s0 EXCEPT !.Sent = <<>>]
    IN  IF s.State = "Established" THEN Send_FIN(s) ELSE s

\* Send as the layer above calls it: opcode Unset, the request index it
\* answers (or 0) in RemoteAck.
SendMessage(s0, Remote, Payload) ==
    Send([s0 EXCEPT !.Sent = <<>>], Packet("Unset", 0, Remote, Payload))

\* Recieve: the head of the receive queue is handed out.
Recieve(s0) ==
    [[s0 EXCEPT !.Sent = <<>>] EXCEPT !.RecieveQueue = Tail(@)]

(***************************************************************************)
(* The state after a clean handshake, computed with the operations above:  *)
(* the client connects, the server reads the SYN, the client reads the     *)
(* SYN_ACK and the ACK, the server reads the client's ACK.                 *)
(***************************************************************************)
Quiet(s) == [s EXCEPT !.Sent = <<>>]

ClientConnecting == Connect(NewStream)

ServerSynRecieved == Pump(NewStream, ClientConnecting.Sent).s

ClientEstablished == Pump(ClientConnecting, ServerSynRecieved.Sent).s

ServerEstablished == Pump(ServerSynRecieved, ClientEstablished.Sent).s

\* The streams after further messages from the client were sent, delivered
\* and acknowledged one by one, until the client's next packet is the last
\* before its sequence index wraps.
RECURSIVE AdvanceToWrap(_)
AdvanceToWrap(pair) ==
    IF pair.client.SequenceIndex = MAX_ACK_VALUE - 1
    THEN pair
    ELSE LET c1 == Pump(SendMessage(pair.client, 0, EmptyPayload), <<>>).s
             s1 == Pump(pair.server, c1.Sent).s
             c2 == Pump(c1, s1.Sent).s
         IN  AdvanceToWrap([client |-> Quiet(c2),
                            server |-> Quiet(Recieve(s1))])

NearWrap ==
    AdvanceToWrap([client |-> Quiet(ClientEstablished),
                   server |-> Quiet(ServerEstablished)])

\* The number of datagrams the handshake makes each endpoint transmit.
HandshakeLen == Len(ClientConnecting.Sent) + Len(ClientEstablished.Sent)

(***************************************************************************)
(* GameClient, the supervisor of one client.  Times are ages, as above:     *)
(* LastMessageRecievedTime is GetSeconds() - LastMessageRecievedTime, Idle  *)
(* the time since the last datagram from the client arrived (since the     *)
(* construction when none has), both saturating at GameTimeCap; MaxIdle is  *)
(* the largest value Idle has had.  Inbound counts the datagrams that wait  *)
(* to be read.  PollRet is what the last                                    *)
(* Poll returned, ConnectionPumped and StreamPumped whether it called       *)
(* Connection->Pump() and MessageStream->Pump().                            *)
(***************************************************************************)
CLIENT_TIMEOUT == 3

GameTimeCap == 4

MaxInbound == 2

NewGameClient ==
    [LastMessageRecievedTime |-> 0, Idle |-> 0, MaxIdle |-> 0, Inbound |-> 0,
     PollRet |-> FALSE, ConnectionPumped |-> FALSE, StreamPumped |-> FALSE]

\* A Poll that pumps the connection before it looks at the clock.
Poll_PumpFirst(g, ConnectionError, IsConnected, StreamError) ==
    IF ConnectionError
    THEN [g EXCEPT !.PollRet = TRUE, !.ConnectionPumped = TRUE,
                   !.StreamPumped = FALSE]
    ELSE IF g.LastMessageRecievedTime >= CLIENT_TIMEOUT
    THEN [g EXCEPT !.PollRet = TRUE, !.ConnectionPumped = TRUE,
                   !.StreamPumped = FALSE]
    ELSE IF ~IsConnected
    THEN [g EXCEPT !.PollRet = TRUE, !.ConnectionPumped = TRUE,
                   !.StreamPumped = FALSE]
    ELSE IF StreamError
    THEN [g EXCEPT !.PollRet = TRUE, !.ConnectionPumped = TRUE,
                   !.StreamPumped = TRUE]
    ELSE [g EXCEPT !.PollRet = FALSE, !.ConnectionPumped = TRUE,
                   !.StreamPumped = TRUE, !.Inbound = 0]

\* GameClient::Poll.  ConnectionError is what Connection->Pump() returns,
\* IsConnected what Connection->IsConnected() returns, StreamError what
\* MessageStream->Pump() returns; the Recieve loop takes every datagram.
Poll(g, ConnectionError, IsConnected, StreamError) ==
    IF g.LastMessageRecievedTime >= CLIENT_TIMEOUT
    THEN [g EXCEPT !.PollRet = TRUE, !.ConnectionPumped = FALSE,
                   !.StreamPumped = FALSE]
    ELSE IF ConnectionError
    THEN [g EXCEPT !.PollRet = TRUE, !.ConnectionPumped = TRUE,
                   !.StreamPumped = FALSE]
    ELSE IF ~IsConnected
    THEN [g EXCEPT !.PollRet = TRUE, !.ConnectionPumped = TRUE,
                   !.StreamPumped = FALSE]
    ELSE IF StreamError
    THEN [g EXCEPT !.PollRet = TRUE, !.ConnectionPumped = TRUE,
                   !.StreamPumped = TRUE]
    ELSE [g EXCEPT !.PollRet = FALSE, !.ConnectionPumped = TRUE,
                   !.StreamPumped = TRUE, !.Inbound = 0]

(***************************************************************************)
(* The system: a client stream and a server stream, the datagrams in       *)
(* flight towards each (wire, oldest first), and what the layer above and  *)
(* an observer of the network have seen: the packets Recieve returned      *)
(* (delivered), the number of messages passed to Send (sends), the last    *)
(* value Pump returned (pumpRet), the datagrams each endpoint transmitted  *)
(* during the handshake, i.e. its first HandshakeLen ones (log), and the   *)
(* number of datagrams the network has duplicated, or of SYN datagrams it  *)
(* has lost (faults), and the sequence numbers each endpoint has           *)
(* acknowledged, in the order of their first ACK (acked).  game is the     *)
(* supervisor of one client (GameClient).                                  *)
(***************************************************************************)
VARIABLES stream, wire, delivered, sends, pumpRet, log, faults, acked, game

vars ==
    <<stream, wire, delivered, sends, pumpRet, log, faults, acked, game>>

\* Bounds of the model.
MaxSends == 3

MaxWire == 3

MaxFaults == 2

MaxReplaySends == 1
MaxLossySends == 2

SeqIndex(q) == 1..Len(q)

\* The datagrams a Pump reads in one call: up to two of those in flight, in
\* any order (a batch lists their places in the wire).
Batches(q) ==
    {<<>>} \cup {<<i>> : i \in SeqIndex(q)}
           \cup {b \in SeqIndex(q) \X SeqIndex(q) : b[1] # b[2]}

\* The same, for a network that keeps the order.
InOrderBatches(q) == {b \in Batches(q) : \A k \in SeqIndex(b) : b[k] = k}

Pick(q, idx) == [k \in SeqIndex(idx) |-> q[idx[k]]]

Without(q, idx) ==
    LET keep == {i \in SeqIndex(q) : \A k \in SeqIndex(idx) : idx[k] # i}
        F[i \in 0..Len(q)] ==
            IF i = 0 THEN <<>>
            ELSE IF i \in keep THEN Append(F[i - 1], q[i]) ELSE F[i - 1]
    IN  F[Len(q)]

\* A wire holds at most MaxWire datagrams: the network drops what does not
\* fit.
Fit(q) == IF Len(q) > MaxWire THEN SubSeq(q, 1, MaxWire) ELSE q

Fits(e, s) == Len(wire[Peer(e)]) + Len(s.Sent) <= MaxWire

\* The sequence numbers for which an ACK has been transmitted, in the order
\* of their first ACK: the history l with the ACKs of sent.
RECURSIVE AckedOf(_, _)
AckedOf(l, sent) ==
    IF sent = <<>> THEN l
    ELSE LET d == Head(sent)
             l1 == IF d.Header.opcode = "ACK"
                      /\ \A i \in 1..Len(l) : l[i] # d.Header.remote
                   THEN Append(l, d.Header.remote)
                   ELSE l
         IN  AckedOf(l1, Tail(sent))

LogOf(l, s) ==
    LET all == l \o s.Sent
    IN  IF Len(all) > HandshakeLen THEN SubSeq(all, 1, HandshakeLen) ELSE all

\* Stream e becomes s; what s sent goes on the wire to the peer, and mine is
\* what is left of the wire to e itself.
Step(e, s, mine) ==
    /\ stream' = [stream EXCEPT ![e] = s]
    /\ wire' = [wire EXCEPT ![e] = mine, ![Peer(e)] = Fit(@ \o s.Sent)]
    /\ log' = [log EXCEPT ![e] = LogOf(@, s)]
    /\ acked' = [acked EXCEPT ![e] = AckedOf(@, s.Sent)]
    /\ UNCHANGED game

Age(t) == IF t < TimeCap THEN t + 1 ELSE t

AgePackets(q) == [i \in SeqIndex(q) |-> [q[i] EXCEPT !.SendTime = Age(@)]]

AgeStream(s) ==
    [s EXCEPT !.RetransmissionTimer = Age(@),
              !.LastAckSendTime = Age(@),
              !.ResendSynTimer = Age(@),
              !.CloseTimer = Age(@),
              !.SendQueue = AgePackets(@),
              !.RetransmitBuffer = AgePackets(@)]

\* Both streams constructed, nothing sent yet.
Init ==
    /\ stream = [e \in Endpoints |-> NewStream]
    /\ wire = [e \in Endpoints |-> <<>>]
    /\ delivered = [e \in Endpoints |-> <<>>]
    /\ sends = [e \in Endpoints |-> 0]
    /\ pumpRet = [e \in Endpoints |-> FALSE]
    /\ log = [e \in Endpoints |-> <<>>]
    /\ faults = 0
    /\ acked = [e \in Endpoints |-> <<>>]
    /\ game = NewGameClient

\* Both streams after a clean handshake.
InitEstablished ==
    /\ stream = [e \in Endpoints |->
                   IF e = "client" THEN Quiet(ClientEstablished)
                   ELSE Quiet(ServerEstablished)]
    /\ wire = [e \in Endpoints |-> <<>>]
    /\ delivered = [e \in Endpoints |-> <<>>]
    /\ sends = [e \in Endpoints |-> 0]
    /\ pumpRet = [e \in Endpoints |-> FALSE]
    /\ log = [e \in Endpoints |->
                IF e = "client"
                THEN ClientConnecting.Sent \o ClientEstablished.Sent
                ELSE ServerSynRecieved.Sent]
    /\ faults = 0
    /\ acked = [e \in Endpoints |->
                  IF e = "client"
                  THEN AckedOf(<<>>, ClientConnecting.Sent
                                         \o ClientEstablished.Sent)
                  ELSE AckedOf(<<>>, ServerSynRecieved.Sent)]
    /\ game = NewGameClient

\* Both streams when the client's sequence index is about to wrap.
InitWrap ==
    /\ stream = NearWrap
    /\ wire = [e \in Endpoints |-> <<>>]
    /\ delivered = [e \in Endpoints |-> <<>>]
    /\ sends = [e \in Endpoints |-> 0]
    /\ pumpRet = [e \in Endpoints |-> FALSE]
    /\ log = [e \in Endpoints |->
                IF e = "client"
                THEN ClientConnecting.Sent \o ClientEstablished.Sent
                ELSE ServerSynRecieved.Sent]
    /\ faults = 0
    /\ acked = [e \in Endpoints |->
                  [i \in 1..NearWrap[e].RemoteSequenceIndex |-> i]]
    /\ game = NewGameClient

\* The client application connects.
DoConnect ==
    /\ stream["client"].State = "Listening"
    /\ log["client"] = <<>>
    /\ Step("client", Connect(stream["client"]), wire["client"])
    /\ UNCHANGED <<delivered, sends, pumpRet, faults>>

\* The layer above e sends its next message (a request: RemoteAck 0).
DoSend(e) ==
    /\ stream[e].State \in {"Established", "Closing"}
    /\ sends[e] < MaxSends
    /\ Step(e, SendMessage(stream[e], 0, sends[e] + 1), wire[e])
    /\ sends' = [sends EXCEPT ![e] = @ + 1]
    /\ UNCHANGED <<delivered, pumpRet, faults>>

\* The layer above e sends a message whatever the state of the stream is.
DoSendAnyTime(e) ==
    /\ sends[e] < MaxReplaySends
    /\ Step(e, SendMessage(stream[e], 0, sends[e] + 1), wire[e])
    /\ sends' = [sends EXCEPT ![e] = @ + 1]
    /\ UNCHANGED <<delivered, pumpRet, faults>>

DoDisconnect(e) ==
    /\ stream[e].State = "Established"
    /\ Step(e, Disconnect(stream[e]), wire[e])
    /\ UNCHANGED <<delivered, sends, pumpRet, faults>>

DoRecieve(e) ==
    /\ Len(stream[e].RecieveQueue) > 0
    /\ delivered' = [delivered EXCEPT
                        ![e] = Append(@, Bytes(Head(stream[e].RecieveQueue)))]
    /\ Step(e, Recieve(stream[e]), wire[e])
    /\ UNCHANGED <<sends, pumpRet, faults>>

\* Pump reads the datagrams at places idx of the wire; r is what Pump
\* computes.
PumpStep(e, idx, r) ==
    /\ r.Read \/ idx = <<>>
    /\ Step(e, r.s, IF r.Read THEN Without(wire[e], idx) ELSE wire[e])
    /\ pumpRet' = [pumpRet EXCEPT ![e] = r.Ret]
    /\ UNCHANGED <<delivered, sends, faults>>

PumpBatch(e, idx) ==
    \E r \in {Pump(stream[e], Pick(wire[e], idx))} : PumpStep(e, idx, r)

\* Pump on a network that may reorder datagrams.
DoPump(e) == \E idx \in Batches(wire[e]) : PumpBatch(e, idx)

\* Pump on a network that keeps the order and has room for what is sent.
DoPumpInOrder(e) ==
    \E idx \in InOrderBatches(wire[e]) :
        \E r \in {Pump(stream[e], Pick(wire[e], idx))} :
            Fits(e, r.s) /\ PumpStep(e, idx, r)

\* One unit of time passes.
Tick ==
    /\ stream' = [e \in Endpoints |-> AgeStream(stream[e])]
    /\ stream' # stream
    /\ UNCHANGED <<wire, delivered, sends, pumpRet, log, faults, acked,
                 game>>

\* One unit of time passes on a network whose datagrams arrive or are lost
\* within one unit of time.
QuietTick == (\A e \in Endpoints : wire[e] = <<>>) /\ Tick

\* One unit of time passes on a network on which a SYN arrives or is lost
\* within one unit of time.
SynTick ==
    /\ \A i \in SeqIndex(wire["server"]) :
          wire["server"][i].Header.opcode # "SYN"
    /\ Tick

\* The network duplicates a datagram in flight,
Duplicate(e) ==
    /\ faults < MaxFaults
    /\ Len(wire[e]) < MaxWire
    /\ \E i \in SeqIndex(wire[e]) :
          wire' = [wire EXCEPT ![e] = Append(@, wire[e][i])]
    /\ faults' = faults + 1
    /\ UNCHANGED <<stream, delivered, sends, pumpRet, log, acked,
                 game>>

\* or loses one.
Lose(e) ==
    /\ \E i \in SeqIndex(wire[e]) :
          wire' = [wire EXCEPT ![e] = Without(@, <<i>>)]
    /\ UNCHANGED <<stream, delivered, sends, pumpRet, log, faults, acked,
                 game>>

\* The network loses a SYN that the server has not read.
LoseSyn ==
    /\ faults < MaxFaults
    /\ \E i \in SeqIndex(wire["server"]) :
          /\ wire["server"][i].Header.opcode = "SYN"
          /\ wire' = [wire EXCEPT !["server"] = Without(@, <<i>>)]
    /\ faults' = faults + 1
    /\ UNCHANGED <<stream, delivered, sends, pumpRet, log, acked,
                 game>>

\* The two kinds of DoPumpInOrder: a pump that reads nothing,
PumpIdle(e) ==
    \E r \in {Pump(stream[e], <<>>)} : Fits(e, r.s) /\ PumpStep(e, <<>>, r)

\* and one that reads at least one datagram.
PumpRead(e) ==
    \E idx \in InOrderBatches(wire[e]) \ {<<>>} :
        \E r \in {Pump(stream[e], Pick(wire[e], idx))} :
            Fits(e, r.s) /\ PumpStep(e, idx, r)

(***************************************************************************)
(* Specifications.                                                         *)
(***************************************************************************)
\* A datagram from the client arrives.
GameArrive ==
    /\ ~game.PollRet
    /\ game.Inbound < MaxInbound
    /\ game' = [game EXCEPT !.Inbound = @ + 1, !.Idle = 0]
    /\ UNCHANGED <<stream, wire, delivered, sends, pumpRet, log, faults, acked>>

\* One unit of time passes for the supervisor.
GameTick ==
    /\ ~game.PollRet
    /\ game.Idle < GameTimeCap
    /\ game' = [game EXCEPT
                   !.LastMessageRecievedTime =
                       IF @ < GameTimeCap THEN @ + 1 ELSE @,
                   !.Idle = @ + 1,
                   !.MaxIdle = IF @ < game.Idle + 1 THEN game.Idle + 1 ELSE @]
    /\ UNCHANGED <<stream, wire, delivered, sends, pumpRet, log, faults, acked>>

\* The service polls the client until a Poll tells it to disconnect.
DoPoll ==
    /\ ~game.PollRet
    /\ \E ConnectionError, IsConnected, StreamError \in BOOLEAN :
          game' = Poll(game, ConnectionError, IsConnected, StreamError)
    /\ UNCHANGED <<stream, wire, delivered, sends, pumpRet, log, faults, acked>>

\* Handshake and data over a network that delivers every datagram once and
\* in order.
NextClean ==
    \/ DoConnect
    \/ DoSend("client")
    \/ DoRecieve("server")
    \/ \E e \in Endpoints : DoPumpInOrder(e)

SpecClean == Init /\ [][NextClean]_vars

\* Data from the client to the server over a network that loses and reorders
\* datagrams, while time passes.
NextData ==
    \/ DoSend("client")
    \/ DoRecieve("server")
    \/ \E e \in Endpoints : DoPump(e)
    \/ QuietTick
    \/ \E e \in Endpoints : Lose(e)

SpecData == InitEstablished /\ [][NextData]_vars

\* The handshake over a network that loses SYN datagrams and delivers the
\* others in order, while time passes.
\* The application pumps both streams again and again (GameClient::Poll),
\* time does not stop, and a datagram on the wire is eventually read.
NextSynLoss ==
    \/ DoConnect
    \/ \E e \in Endpoints : DoPumpInOrder(e)
    \/ SynTick
    \/ LoseSyn

\* ENABLED <<PumpRead(e)>>_vars: a pump that reads always changes the wire.
CanRead(e) ==
    \E idx \in InOrderBatches(wire[e]) \ {<<>>} :
        LET r == Pump(stream[e], Pick(wire[e], idx))
        IN  r.Read /\ Fits(e, r.s)

\* Strong fairness of PumpRead(e), with its enabling condition written out.
ReadFair(e) == ([]<>CanRead(e)) => ([]<><<PumpRead(e)>>_vars)

FairSynLoss ==
    /\ WF_vars(DoConnect)
    /\ WF_vars(SynTick)
    /\ \A e \in Endpoints : WF_vars(PumpIdle(e))
    /\ \A e \in Endpoints : ReadFair(e)

SpecSynLoss == Init /\ [][NextSynLoss]_vars /\ FairSynLoss

\* Data from the client to the server over a network that only reorders
\* datagrams.
NextReorder ==
    \/ DoSend("client")
    \/ DoRecieve("server")
    \/ \E e \in Endpoints : DoPump(e)

SpecReorder == InitEstablished /\ [][NextReorder]_vars

\* The same when the client's sequence index is about to wrap.
SpecWrap == InitWrap /\ [][NextData]_vars

\* Handshake and data from the client to the server over a network that
\* reorders and duplicates datagrams.
NextReplay ==
    \/ DoConnect
    \/ sends["client"] < MaxReplaySends /\ DoSend("client")
    \/ DoRecieve("server")
    \/ \E e \in Endpoints : DoPump(e)
    \/ \E e \in Endpoints : Duplicate(e)

SpecReplay == Init /\ [][NextReplay]_vars

\* The same with messages in both directions and a server application that
\* disconnects.
NextClose ==
    \/ DoConnect
    \/ \E e \in Endpoints : sends[e] < MaxReplaySends /\ DoSend(e)
    \/ DoDisconnect("server")
    \/ \E e \in Endpoints : DoPump(e)
    \/ Duplicate("server")

SpecClose == Init /\ [][NextClose]_vars

\* Data from the client to the server and a client application that
\* disconnects, over a network that loses and reorders datagrams, while time
\* passes.
NextFin ==
    \/ DoSend("client")
    \/ DoDisconnect("client")
    \/ \E e \in Endpoints : DoPump(e)
    \/ QuietTick
    \/ \E e \in Endpoints : Lose(e)

SpecFin == InitEstablished /\ [][NextFin]_vars

\* A few messages from the client to the server over a network that loses
\* and reorders datagrams, while time passes.
NextLossy ==
    \/ (sends["client"] < MaxLossySends /\ DoSend("client"))
    \/ DoRecieve("server")
    \/ \E e \in Endpoints : DoPump(e)
    \/ QuietTick
    \/ \E e \in Endpoints : Lose(e)

SpecLossy == InitEstablished /\ [][NextLossy]_vars

\* Messages from the client that the server's application does not take,
\* over a network that loses and reorders datagrams, while time passes.
NextWindow ==
    \/ DoSend("client")
    \/ \E e \in Endpoints : DoPump(e)
    \/ QuietTick
    \/ \E e \in Endpoints : Lose(e)

SpecWindow == InitEstablished /\ [][NextWindow]_vars

\* A few messages from a client whose application disconnects, over a
\* network that reorders datagrams and loses datagrams on their way to the
\* server, while time passes.
NextShut ==
    \/ (sends["client"] < MaxLossySends /\ DoSend("client"))
    \/ DoDisconnect("client")
    \/ \E e \in Endpoints : DoPump(e)
    \/ QuietTick
    \/ Lose("server")

SpecShut == InitEstablished /\ [][NextShut]_vars

\* The handshake and a message from a client application that does not
\* wait for the handshake, over a network that reorders datagrams.
NextEarly ==
    \/ DoConnect
    \/ DoSendAnyTime("client")
    \/ DoRecieve("server")
    \/ \E e \in Endpoints : DoPump(e)

SpecEarly == Init /\ [][NextEarly]_vars

\* The supervisor of one client: datagrams arrive, time passes, the service
\* polls.
NextPoll == GameArrive \/ GameTick \/ DoPoll

SpecPoll == Init /\ [][NextPoll]_vars

(***************************************************************************)
(* Claims.                                                                 *)
(***************************************************************************)
\* C1: the packets Recieve returns carry consecutive local_ack values (each
\* is the one before plus 1 modulo MAX_ACK_VALUE), whatever the network
\* reordered, lost or duplicated.
C1_InOrderDelivery ==
    \A e \in Endpoints : \A i \in 1..(Len(delivered[e]) - 1) :
        delivered[e][i + 1].local = (delivered[e][i].local + 1) % MAX_ACK_VALUE

\* C2: each message the sender passed to Send is returned by the peer's
\* Recieve at most once, however often datagrams are repeated on the wire.
C2_NoDuplicates ==
    \A e \in Endpoints : \A i, j \in SeqIndex(delivered[e]) :
        delivered[e][i].payload = delivered[e][j].payload => i = j

Member(q, x) == \E i \in SeqIndex(q) : q[i] = x

IsDat(d, n) == d.Header.opcode = "DAT" /\ d.Header.local = n

AcksIn(sent) == SelectSeq(sent, LAMBDA d : d.Header.opcode = "ACK")

AckFor(d) == EncodeReliablePacket(Packet("ACK", 0, d.Header.local, EmptyPayload))

\* The DAT numbered m has left the client and is no longer on its way to the
\* server.
ArrivedEarlier(m) ==
    \E i \in SeqIndex(stream["client"].RetransmitBuffer) :
        /\ stream["client"].RetransmitBuffer[i].local = m
        /\ ~Member(wire["server"],
                   EncodeReliablePacket(stream["client"].RetransmitBuffer[i]))

\* C3: when DAT N+1 has arrived before DAT N, the pump that reads DAT N makes
\* both available to Recieve, N followed by N+1.
C3_DeliveryUnderReordering ==
    [][\A idx \in Batches(wire["server"]) :
         LET s == stream["server"]
             batch == Pick(wire["server"], idx)
             n == GetNextRemoteSequenceIndex(s)
         IN  (/\ s.State = "Established"
              /\ \E k \in SeqIndex(batch) : IsDat(batch[k], n)
              /\ ArrivedEarlier((n + 1) % MAX_ACK_VALUE)
              /\ PumpBatch("server", idx))
             => \E i \in 1..(Len(stream'["server"].RecieveQueue) - 1) :
                  /\ stream'["server"].RecieveQueue[i].local = n
                  /\ stream'["server"].RecieveQueue[i + 1].local =
                         (n + 1) % MAX_ACK_VALUE]_vars

\* C4: a pump that reads the next expected DAT, alone or directly followed by
\* its successor, queues every DAT it read for Recieve and emits exactly one
\* ACK for each, in order.
C4_ConsecutiveDats ==
    [][\A idx \in Batches(wire["server"]) :
         LET s == stream["server"]
             batch == Pick(wire["server"], idx)
             n == GetNextRemoteSequenceIndex(s)
         IN  (/\ s.State = "Established"
              /\ Len(batch) >= 1
              /\ \A k \in SeqIndex(batch) :
                    IsDat(batch[k], (n + k - 1) % MAX_ACK_VALUE)
              /\ PumpBatch("server", idx))
             => /\ AcksIn(stream'["server"].Sent) =
                       [k \in SeqIndex(batch) |-> AckFor(batch[k])]
                /\ stream'["server"].RecieveQueue =
                       s.RecieveQueue \o
                       [k \in SeqIndex(batch) |->
                           DecodeReliablePacket(batch[k])]]_vars

Datagram(op, local, remote, payload) ==
    EncodeReliablePacket(Packet(op, local, remote, payload))

IsPrefix(p, q) ==
    Len(p) <= Len(q) /\ \A k \in SeqIndex(p) : p[k] = q[k]

\* A datagram of the handshake is still on its way.
HandshakeInFlight ==
    \E e \in Endpoints : \E i \in SeqIndex(wire[e]) :
        \/ wire[e][i].Header.opcode \in {"SYN", "SYN_ACK"}
        \/ /\ wire[e][i].Header.opcode = "ACK"
           /\ wire[e][i].Header.remote = START_SEQUENCE_INDEX

HandshakeDone ==
    /\ Len(log["client"]) = HandshakeLen
    /\ Len(log["server"]) = HandshakeLen
    /\ ~HandshakeInFlight

\* C5: over a network that delivers every datagram once and in order, the
\* client emits SYN(1,0) and then ACK(0,1), the server emits SYN_ACK(1,1)
\* and then ACK(0,1), and when all of them were read both streams are
\* Established.
C5_CleanHandshake ==
    /\ IsPrefix(log["client"],
                <<Datagram("SYN", 1, 0, SynPayload),
                  Datagram("ACK", 0, 1, EmptyPayload)>>)
    /\ IsPrefix(log["server"],
                <<Datagram("SYN_ACK", 1, 1, SynAckPayload),
                  Datagram("ACK", 0, 1, EmptyPayload)>>)
    /\ HandshakeDone =>
           \A e \in Endpoints : stream[e].State = "Established"

C5_HandshakeCompleted ==
    /\ HandshakeDone
    /\ \A e \in Endpoints : stream[e].State = "Established"
    /\ sends["client"] = 0

BothEstablished == \A e \in Endpoints : stream[e].State = "Established"

\* C6: a pump of the Connecting client emits SYN again exactly when more
\* than RESEND_SYN_INTERVAL has passed since the last one, and after the
\* loss of a SYN both streams still become Established.
C6_HandshakeUnderSynLoss ==
    /\ [][(stream["client"].State = "Connecting" /\ DoPumpInOrder("client"))
            => LET resent == Member(stream'["client"].Sent,
                                    Datagram("SYN", START_SEQUENCE_INDEX, 0,
                                             SynPayload))
               IN  resent <=>
                   stream["client"].ResendSynTimer > RESEND_SYN_INTERVAL]_vars
    /\ (faults > 0) ~> BothEstablished

C6_EstablishedAfterSynLoss ==
    /\ faults > 0
    /\ BothEstablished
    /\ log["client"] = <<Datagram("SYN", START_SEQUENCE_INDEX, 0, SynPayload),
                         Datagram("SYN", START_SEQUENCE_INDEX, 0, SynPayload)>>

\* C7: no stream ever holds more than MAX_PACKETS_IN_FLIGHT packets in its
\* retransmit buffer.
C7_BoundedInFlight ==
    \A e \in Endpoints :
        Len(stream[e].RetransmitBuffer) <= MAX_PACKETS_IN_FLIGHT

\* The buffer is full while a further packet waits in the send queue.
C7_WindowFull ==
    \E e \in Endpoints :
        /\ Len(stream[e].RetransmitBuffer) = MAX_PACKETS_IN_FLIGHT
        /\ Len(stream[e].SendQueue) > 0
        /\ stream[e].Sent = <<>>

\* C8: a pump of the client re-emits, unchanged, every packet of the
\* retransmit buffer that is older than RETRANSMIT_INTERVAL and stays
\* unacknowledged: in the first pump that finds it that old, and again in
\* every pump that finds the retransmission timer above
\* RETRANSMIT_CYCLE_INTERVAL; a stream whose retransmit buffer is empty after
\* a pump is no longer retransmitting.
C8_Retransmission ==
    [][DoPump("client") =>
         LET s == stream["client"]
             t == stream'["client"]
         IN  /\ \A i \in SeqIndex(s.RetransmitBuffer) :
                   (/\ s.RetransmitBuffer[i].SendTime > RETRANSMIT_INTERVAL
                    /\ Member(t.RetransmitBuffer, s.RetransmitBuffer[i])
                    /\ \/ ~s.IsRetransmitting
                       \/ s.RetransmissionTimer > RETRANSMIT_CYCLE_INTERVAL)
                   => Member(t.Sent,
                             EncodeReliablePacket(s.RetransmitBuffer[i]))
             /\ (s.RetransmitBuffer # <<>> /\ t.RetransmitBuffer = <<>>
                 /\ t.SendQueue = <<>>)
                   => ~t.IsRetransmitting]_vars

Payloads(q) == [i \in SeqIndex(q) |-> q[i].payload]

\* The server has message k: delivered, or queued for Recieve.
Recieved(k) ==
    \/ Member(Payloads(delivered["server"]), k)
    \/ Member(Payloads(stream["server"].RecieveQueue), k)
    \/ Member(Payloads(stream["server"].PendingRecieveQueue), k)

\* C9: when the client's sequence index passes MAX_ACK_VALUE - 1 and
\* restarts at 0, the server's Recieve returns the messages once each and in
\* the order sent, and the client keeps every message the server does not
\* have yet for retransmission instead of taking it for acknowledged.
C9_SequenceWraparound ==
    /\ IsPrefix(Payloads(delivered["server"]),
                [k \in 1..sends["client"] |-> k])
    /\ \A k \in 1..sends["client"] :
          \/ Recieved(k)
          \/ Member(Payloads(stream["client"].SendQueue), k)
          \/ Member(Payloads(stream["client"].RetransmitBuffer), k)

\* C10: once Disconnect has sent the FIN of an Established stream (which
\* sets CloseTimer), no operation adds a packet to that stream's RecieveQueue.
C10_NoReceiveAfterDisconnect ==
    [][\A e \in Endpoints :
         stream[e].CloseTimerSet =>
             Len(stream'[e].RecieveQueue) <= Len(stream[e].RecieveQueue)]_vars

\* C11: a pump of a stream that is Closing after its own Disconnect, and
\* that reads nothing but the peer's FIN_ACK, does not put the stream into
\* the error state.
C11_GracefulFin ==
    [][\A e \in Endpoints : \A idx \in Batches(wire[e]) :
         (/\ stream[e].State = "Closing"
          /\ stream[e].CloseTimerSet
          /\ ~stream[e].InErrorState
          /\ idx # <<>>
          /\ \A k \in SeqIndex(idx) :
                wire[e][idx[k]].Header.opcode = "FIN_ACK"
          /\ PumpBatch(e, idx))
         => ~stream'[e].InErrorState]_vars

\* A pump of the Established server reads the datagrams at idx, all of them
\* DATs that are not the next one in sequence.
ReadsOutOfSequence(idx) ==
    /\ stream["server"].State = "Established"
    /\ idx # <<>>
    /\ \A k \in SeqIndex(idx) :
          /\ wire["server"][idx[k]].Header.opcode = "DAT"
          /\ wire["server"][idx[k]].Header.local #
                 GetNextRemoteSequenceIndex(stream["server"])
    /\ PumpBatch("server", idx)

\* The packets are dropped, and one ACK is re-sent if the last one is old.
DropsWithLateAck(n) ==
    LET s == stream["server"]
        t == stream'["server"]
    IN  /\ t.RecieveQueue = s.RecieveQueue
        /\ t.PendingRecieveQueue = s.PendingRecieveQueue
        /\ t.RemoteSequenceIndex = s.RemoteSequenceIndex
        /\ AcksIn(t.Sent) =
               IF s.LastAckSendTime > MIN_TIME_BETWEEN_RESEND_ACK
               THEN <<Datagram("ACK", 0, n, EmptyPayload)>>
               ELSE <<>>

\* C12 as stated: out-of-sequence packets are dropped, one ACK of the last
\* in-order sequence is re-sent if the last ACK is older than
\* MIN_TIME_BETWEEN_RESEND_ACK, and no ACK carries the sequence of a packet
\* that was read out of sequence.
C12_NoAckOfOwnSequence ==
    [][\A idx \in Batches(wire["server"]) :
         ReadsOutOfSequence(idx) =>
             /\ DropsWithLateAck(stream["server"].RemoteSequenceIndex)
             /\ \A k \in SeqIndex(idx) :
                   ~Member(stream'["server"].Sent,
                           AckFor(wire["server"][idx[k]]))]_vars

\* C12 amended: the ACK that is re-sent carries the last in-order sequence,
\* whether or not that is the sequence of the packet read (it is when the
\* packet repeats the last one delivered).
C12_LateAckOfLastInOrder ==
    [][\A idx \in Batches(wire["server"]) :
         ReadsOutOfSequence(idx) =>
             DropsWithLateAck(stream["server"].RemoteSequenceIndex)]_vars

\* The server has re-sent the ACK of a message it had delivered before.
C12_AckResent ==
    /\ delivered["server"] # <<>>
    /\ stream["server"].RecieveQueue = <<>>
    /\ stream["server"].Sent =
           <<Datagram("ACK", 0,
                      delivered["server"][Len(delivered["server"])].local,
                      EmptyPayload)>>

\* The sequence number of the next packet that has never been transmitted:
\* the head of the send queue, or the number the next Send will use.
NextFirst(s) ==
    IF s.SendQueue # <<>> THEN Head(s.SendQueue).local ELSE s.SequenceIndex

\* The sequenced datagrams of sent that are not copies of a packet of the
\* retransmit buffer buf: the first transmissions.
FirstTransmissions(sent, buf) ==
    SelectSeq(sent, LAMBDA d : /\ IsOpcodeSequenced(d.Header.opcode)
                               /\ ~HasPacketWithLocalSequence(buf, d.Header.local))

\* q starts with what is left of p after its first n elements.
IsSuffix(q, p, n) ==
    /\ Len(q) >= Len(p) - n
    /\ \A k \in 1..(Len(p) - n) : q[k] = p[n + k]

\* C13: the sequenced packets a pump transmits for the first time are the
\* packets at the head of the send queue (followed by what the pump itself
\* queued), in the order Send queued them:
\* their local_ack values count up by one (modulo MAX_ACK_VALUE) from the
\* first number never transmitted, and the send queue, which Send fills in
\* increasing local_ack order, loses exactly these packets (unless the pump
\* closes the stream, which discards the queue).  Every other sequenced
\* datagram of the pump repeats a packet of the retransmit buffer.
C13_OutboundOrder ==
    [][\A e \in Endpoints : \A idx \in Batches(wire[e]) :
         PumpBatch(e, idx) =>
             LET first == FirstTransmissions(stream'[e].Sent,
                                             stream[e].RetransmitBuffer)
             IN  /\ \A k \in SeqIndex(first) :
                       /\ k <= Len(stream[e].SendQueue) =>
                              first[k] =
                                  EncodeReliablePacket(stream[e].SendQueue[k])
                       /\ first[k].Header.local =
                              (NextFirst(stream[e]) + k - 1) % MAX_ACK_VALUE
                 /\ stream'[e].State # "Closed" =>
                        /\ IsSuffix(stream'[e].SendQueue, stream[e].SendQueue,
                                    Len(first))
                        /\ NextFirst(stream'[e]) =
                               (NextFirst(stream[e]) + Len(first))
                                   % MAX_ACK_VALUE]_vars

\* One pump of the client has transmitted two messages for the first time.
C13_TwoFirstTransmissions ==
    /\ Len(stream["client"].Sent) = 2
    /\ \A k \in 1..2 : stream["client"].Sent[k].Header.opcode = "DAT"
    /\ stream["client"].Sent[1].Header.local # stream["client"].Sent[2].Header.local
    /\ stream["client"].SendQueue = <<>>
    /\ Len(stream["client"].RetransmitBuffer) = 2

QueuesEmpty(s) ==
    /\ s.PendingRecieveQueue = <<>>
    /\ s.RecieveQueue = <<>>
    /\ s.SendQueue = <<>>
    /\ s.RetransmitBuffer = <<>>

\* C15: once a stream is Closed it stays Closed, and every pump of it,
\* whatever datagrams are waiting, returns true, reads none of them,
\* transmits nothing and leaves all queues empty.
C15_ClosedIsTerminal ==
    [][\A e \in Endpoints :
         stream[e].State = "Closed" =>
             /\ stream'[e].State = "Closed"
             /\ \A idx \in Batches(wire[e]) :
                   LET r == Pump(stream[e], Pick(wire[e], idx))
                   IN  /\ r.Ret
                       /\ ~r.Read
                       /\ r.s.State = "Closed"
                       /\ r.s.Sent = <<>>
                       /\ QueuesEmpty(r.s)
                       /\ PumpBatch(e, idx) =>
                              /\ stream'[e] = r.s
                              /\ pumpRet'[e]
                              /\ wire' = wire]_vars

\* The client is Closed, its last pump has returned true, and a datagram
\* is waiting for it.
C15_ClosedWithInput ==
    /\ stream["client"].State = "Closed"
    /\ pumpRet["client"]
    /\ wire["client"] # <<>>
    /\ QueuesEmpty(stream["client"])

\* C16: when no datagram from the client has arrived for CLIENT_TIMEOUT, the
\* next Poll returns true (disconnect) and has called neither
\* Connection->Pump() nor MessageStream->Pump().
C16_IdleTimeout ==
    [][(game.Idle >= CLIENT_TIMEOUT /\ DoPoll) =>
           /\ game'.PollRet
           /\ ~game'.ConnectionPumped
           /\ ~game'.StreamPumped]_vars

\* A Poll has disconnected a client that had sent a datagram and then
\* nothing for CLIENT_TIMEOUT.
C16_TimedOut ==
    /\ game.PollRet
    /\ ~game.ConnectionPumped
    /\ game.Idle >= CLIENT_TIMEOUT
    /\ game.Idle < game.LastMessageRecievedTime

\* Frpg2ReliableUdpOpCode.
Opcodes ==
    {"Unset", "SYN", "SYN_ACK", "ACK", "RACK", "DAT", "DAT_ACK", "HBT", "FIN",
     "FIN_ACK", "RST"}

\* The packets a caller may hand to Send on stream s.
SendInputs(s) ==
    {Packet(op, local, remote, payload) :
        op \in Opcodes, local \in {s.SequenceIndex},
        remote \in {0, s.RemoteSequenceIndex}, payload \in {1}}

\* C17: Send on a stream that is Closing changes nothing, whatever the
\* opcode: SendQueue, RetransmitBuffer, SequenceIndex and every other field
\* stay as they are and nothing is handed to the datagram layer.
C17_SendWhileClosing ==
    \A e \in Endpoints :
        stream[e].State = "Closing" =>
            \A Input \in SendInputs(stream[e]) :
                /\ Send(Quiet(stream[e]), Input) = Quiet(stream[e])
                /\ SendMessage(stream[e], Input.remote, Input.payload)
                       = Quiet(stream[e])

\* The client's application has called Send after Disconnect: the call is
\* counted, and the stream has queued and numbered nothing.
C17_SentWhileClosing ==
    /\ stream["client"].State = "Closing"
    /\ sends["client"] = 1
    /\ stream["client"].SequenceIndex = ClientEstablished.SequenceIndex
    /\ stream["client"].SendQueue = <<>>
    /\ stream["client"].RetransmitBuffer = <<>>
    /\ stream["client"].Sent = <<>>

NotYetEstablished(s) == s.State \in {"Listening", "Connecting", "SynRecieved"}

IsData(d) == d.Header.opcode \in {"DAT", "DAT_ACK"}

\* C18: a stream that has not reached Established has transmitted no DAT and
\* no DAT_ACK in its last operation and holds no packet in
\* PendingRecieveQueue or RecieveQueue.
C18_NoDataBeforeEstablished ==
    \A e \in Endpoints :
        NotYetEstablished(stream[e]) =>
            /\ \A k \in SeqIndex(stream[e].Sent) : ~IsData(stream[e].Sent[k])
            /\ stream[e].PendingRecieveQueue = <<>>
            /\ stream[e].RecieveQueue = <<>>

\* The sequenced packets that may arrive at stream s: in sequence or not,
\* and the ones on datagrams q.
SequencedInputs(s, q) ==
    {Packet(op, local, remote, 1) :
        op \in {"DAT", "DAT_ACK", "FIN_ACK"},
        local \in {GetNextRemoteSequenceIndex(s), s.RemoteSequenceIndex},
        remote \in {0, s.SequenceIndexAcked}}
    \cup {DecodeReliablePacket(q[i]) :
            i \in {k \in SeqIndex(q) : IsOpcodeSequenced(q[k].Header.opcode)}}

\* C19: handling a sequenced packet on a stream that is not Established
\* sets InErrorState and nothing else: the state, the four sequence
\* counters and the queues stay as they are, and nothing (no ACK) is sent.
C19_SequencedBeforeEstablished ==
    \A e \in Endpoints :
        stream[e].State # "Established" =>
            \A Pkt \in SequencedInputs(stream[e], wire[e]) :
                HandleIncomingPacket(stream[e], Pkt)
                    = [stream[e] EXCEPT !.InErrorState = TRUE]

\* The server has read a DAT before its handshake was complete: it is in
\* the error state, has queued nothing and has sent no ACK for it.
C19_EarlyDatRead ==
    /\ NotYetEstablished(stream["server"])
    /\ stream["server"].InErrorState
    /\ stream["server"].PendingRecieveQueue = <<>>
    /\ stream["server"].RecieveQueue = <<>>
    /\ AcksIn(stream["server"].Sent) = <<>>
    /\ acked["server"] = <<>>

\* The packets a caller may hand to Send on stream s, with a local_ack that
\* is the sequence index or is not.
AnySendInputs(s) ==
    {Packet(op, local, remote, 1) :
        op \in Opcodes, local \in {0, s.SequenceIndex},
        remote \in {0, s.RemoteSequenceIndex}}

\* The packets with a non-sequenced opcode that may arrive at stream s.
NonSequencedInputs(s) ==
    {Packet(op, local, remote, EmptyPayload) :
        op \in Opcodes \ {"Unset", "DAT", "DAT_ACK", "FIN_ACK"},
        local \in {0, START_SEQUENCE_INDEX},
        remote \in {0, s.SequenceIndex}}

NextIndex(n) == (n + 1) % MAX_ACK_VALUE

\* Send has appended exactly the packet p to the send queue and advanced
\* the sequence index by one.
QueuedOne(s, r, p) ==
    /\ r.SendQueue = Append(s.SendQueue, p)
    /\ r.SequenceIndex = NextIndex(s.SequenceIndex)

\* C20 as stated: outside Closing, Send of a DAT, DAT_ACK, FIN_ACK or Unset
\* packet appends one packet whose local_ack is the sequence index before
\* the call, with the remote_ack supplied, and advances the sequence index
\* by one; sending or receiving a packet of any other opcode leaves the
\* sequence index unchanged.
C20_OnlyQueuedPacketsAdvance ==
    \A e \in Endpoints :
        LET s == Quiet(stream[e])
        IN  s.State # "Closing" =>
                /\ \A Input \in AnySendInputs(s) :
                      LET r == Send(s, Input)
                      IN  IF IsOpcodeSequenced(Input.opcode)
                             \/ Input.opcode = "Unset"
                          THEN /\ Len(r.SendQueue) = Len(s.SendQueue) + 1
                               /\ IsPrefix(s.SendQueue, r.SendQueue)
                               /\ r.SendQueue[Len(r.SendQueue)].local
                                      = s.SequenceIndex
                               /\ r.SendQueue[Len(r.SendQueue)].remote
                                      = Input.remote
                               /\ r.SequenceIndex = NextIndex(s.SequenceIndex)
                          ELSE r.SequenceIndex = s.SequenceIndex
                /\ \A Pkt \in NonSequencedInputs(s) :
                      HandleIncomingPacket(s, Pkt).SequenceIndex
                          = s.SequenceIndex

\* C20 amended: Send of an Unset packet queues it as DAT (DAT_ACK when it
\* carries a remote_ack) numbered with the sequence index; Send of a DAT,
\* DAT_ACK or FIN_ACK packet queues it as supplied; both advance the
\* sequence index by one, and Send of any other opcode leaves it unchanged.
\* Receiving ACK, RACK or HBT leaves the sequence index unchanged; receiving
\* SYN or SYN_ACK advances it by one although nothing is queued; receiving
\* FIN queues a FIN_ACK numbered with the sequence index and advances it
\* (nothing happens when the stream is Closing); receiving RST sets it to
\* START_SEQUENCE_INDEX.
C20_SequenceIndexSteps ==
    \A e \in Endpoints :
        LET s == Quiet(stream[e])
        IN  /\ s.State # "Closing" =>
                  \A Input \in AnySendInputs(s) :
                      LET r == Send(s, Input)
                      IN  CASE Input.opcode = "Unset" ->
                                 QueuedOne(s, r,
                                     Packet(IF Input.remote > 0 THEN "DAT_ACK"
                                            ELSE "DAT",
                                            s.SequenceIndex, Input.remote,
                                            Input.payload))
                            [] IsOpcodeSequenced(Input.opcode) ->
                                 QueuedOne(s, r, Input)
                            [] OTHER ->
                                 /\ r.SequenceIndex = s.SequenceIndex
                                 /\ r.SendQueue = s.SendQueue
            /\ \A Pkt \in NonSequencedInputs(s) :
                  LET r == HandleIncomingPacket(s, Pkt)
                  IN  CASE Pkt.opcode \in {"ACK", "RACK", "HBT"} ->
                                 /\ r.SequenceIndex = s.SequenceIndex
                                 /\ r.SendQueue = s.SendQueue
                        [] Pkt.opcode \in {"SYN", "SYN_ACK"} ->
                                 /\ r.SequenceIndex = NextIndex(s.SequenceIndex)
                                 /\ r.SendQueue = s.SendQueue
                        [] Pkt.opcode = "FIN" ->
                                 IF s.State = "Closing"
                                 THEN /\ r.SequenceIndex = s.SequenceIndex
                                      /\ r.SendQueue = s.SendQueue
                                 ELSE QueuedOne(s, r,
                                          Packet("FIN_ACK", s.SequenceIndex,
                                                 Pkt.local, EmptyPayload))
                        [] Pkt.opcode = "RST" ->
                                 r.SequenceIndex = START_SEQUENCE_INDEX

\* The server has answered a SYN: its sequence index has advanced although
\* it has never queued a sequenced packet.
C20_BumpedBySyn ==
    /\ stream["server"].State = "SynRecieved"
    /\ stream["server"].SequenceIndex = NextIndex(START_SEQUENCE_INDEX)
    /\ sends["server"] = 0
    /\ stream["server"].SendQueue = <<>>
    /\ stream["server"].RetransmitBuffer = <<>>


\* a is at or before b in the circular order of the sequence numbers: b is
\* fewer than half a lap ahead of a.
AtOrBefore(a, b) == ((b - a) % MAX_ACK_VALUE) < (MAX_ACK_VALUE \div 2)

\* The packets of the retransmit buffer that the trim of HandleOutgoing
\* would remove now.
Pruned(s) ==
    SelectSeq(s.RetransmitBuffer,
              LAMBDA p : ~Member(TrimRetransmitBuffer(s).RetransmitBuffer, p))

\* C21: the trim of HandleOutgoing removes a packet from RetransmitBuffer only
\* if its local_ack is at or before SequenceIndexAcked in the wrap-aware
\* modular order; a transmitted packet numbered after SequenceIndexAcked in
\* that order stays in the buffer, also across the wrap of the numbers.
C21_PruneOnlyAcknowledged ==
    \A e \in Endpoints :
       \A i \in SeqIndex(Pruned(stream[e])) :
          AtOrBefore(Pruned(stream[e])[i].local, stream[e].SequenceIndexAcked)


(***************************************************************************)
(* A peer that resets the connection.                                      *)
(***************************************************************************)
\* An RST of the peer arrives on the wire to e.
PeerSendsRst(e) ==
    /\ faults < MaxFaults
    /\ Len(wire[e]) < MaxWire
    /\ wire' = [wire EXCEPT ![e] =
                  Append(@, EncodeReliablePacket(
                                Packet("RST", 0, 0, EmptyPayload)))]
    /\ faults' = faults + 1
    /\ UNCHANGED <<stream, delivered, sends, pumpRet, log, acked, game>>

\* An Established pair where the client sends and may disconnect, and the
\* remote side of the server resets the connection.
NextRst ==
    \/ (sends["client"] < MaxLossySends /\ DoSend("client"))
    \/ DoRecieve("server")
    \/ DoDisconnect("client")
    \/ \E e \in Endpoints : DoPump(e)
    \/ PeerSendsRst("server")

SpecRst == InitEstablished /\ [][NextRst]_vars

\* The RST packets that may arrive at stream s.
RstInputs(s) ==
    {Packet("RST", local, remote, EmptyPayload) :
        local \in {0, GetNextRemoteSequenceIndex(s)},
        remote \in {0, s.SequenceIndex}}

\* C22: handling an RST, whatever the state of the stream, sets the state to
\* Listening, SequenceIndex to START_SEQUENCE_INDEX, the three other
\* sequence counters to 0, and empties SendQueue, RetransmitBuffer,
\* PendingRecieveQueue and RecieveQueue.
C22_RstResets ==
    \A e \in Endpoints : \A Pkt \in RstInputs(stream[e]) :
        LET r == HandleIncomingPacket(stream[e], Pkt)
        IN  /\ r.State = "Listening"
            /\ r.SequenceIndex = START_SEQUENCE_INDEX
            /\ r.SequenceIndexAcked = 0
            /\ r.RemoteSequenceIndex = 0
            /\ r.RemoteSequenceIndexAcked = 0
            /\ r.SendQueue = <<>>
            /\ r.RetransmitBuffer = <<>>
            /\ r.PendingRecieveQueue = <<>>
            /\ r.RecieveQueue = <<>>

\* The server has handled an RST after it had delivered a message of the
\* client: it is Listening with the counters of a new stream and empty queues.
C22_ResetByRst ==
    /\ stream["server"].State = "Listening"
    /\ delivered["server"] # <<>>
    /\ sends["client"] > 0
    /\ stream["server"].SequenceIndex = START_SEQUENCE_INDEX
    /\ stream["server"].RemoteSequenceIndex = 0
    /\ stream["server"].RecieveQueue = <<>>


(***************************************************************************)
(* A peer that closes the connection and then stays silent.                *)
(***************************************************************************)
\* A pump of e that reads nothing.
PumpSilent(e) == \E r \in {Pump(stream[e], <<>>)} : PumpStep(e, <<>>, r)

\* The server sends messages; the client's application disconnects, which
\* puts a FIN on the wire to the server, and the client is never pumped
\* again, so that nothing the server sends is acknowledged.
NextRemoteClose ==
    \/ (sends["server"] < MaxLossySends /\ DoSend("server"))
    \/ DoDisconnect("client")
    \/ DoPump("server")
    \/ Tick

\* The server is pumped again and again (GameClient::Poll) and time does not
\* stop.
FairRemoteClose == WF_vars(PumpSilent("server")) /\ WF_vars(Tick)

SpecRemoteClose ==
    InitEstablished /\ [][NextRemoteClose]_vars /\ FairRemoteClose

\* C23: once the server has read the FIN of its peer and is Closing, repeated
\* pumps with advancing time bring it to Closed, although the peer sends
\* nothing further and packets sent before are still unacknowledged.
C23_RemoteClose ==
    (stream["server"].State = "Closing") ~> (stream["server"].State = "Closed")


(***************************************************************************)
(* A handshake on a slow network.                                          *)
(***************************************************************************)
\* One unit of time passes while datagrams are still on their way.
SlowTick ==
    /\ faults < MaxFaults
    /\ stream' = [e \in Endpoints |-> AgeStream(stream[e])]
    /\ faults' = faults + 1
    /\ UNCHANGED <<wire, delivered, sends, pumpRet, log, acked, game>>

\* The handshake while time passes, so that the client may send its SYN
\* again although the first one is still on its way; datagrams may be read
\* in any order.
NextResend ==
    \/ DoConnect
    \/ \E e \in Endpoints : DoPump(e)
    \/ SlowTick

SpecResend == Init /\ [][NextResend]_vars

\* Stream s has sent no sequenced packet and has none queued.
NothingSequencedSent(s) ==
    /\ s.SendQueue = <<>>
    /\ s.RetransmitBuffer = <<>>

\* C24: whenever both endpoints are Established and no sequenced packet has
\* been sent yet, each endpoint's next expected remote sequence number
\* (RemoteSequenceIndex + 1 modulo MAX_ACK_VALUE) is the other endpoint's
\* SequenceIndex, for every schedule of the handshake.
C24_SequenceAgreement ==
    (/\ BothEstablished
     /\ \A e \in Endpoints : sends[e] = 0 /\ NothingSequencedSent(stream[e]))
        => \A e \in Endpoints :
              GetNextRemoteSequenceIndex(stream[e])
                  = stream[Peer(e)].SequenceIndex


(***************************************************************************)
(* Data over a network that loses a bounded number of datagrams.           *)
(***************************************************************************)
\* The network loses a datagram on its way to e, at most MaxFaults times.
LoseSome(e) ==
    /\ faults < MaxFaults
    /\ \E i \in SeqIndex(wire[e]) :
          wire' = [wire EXCEPT ![e] = Without(@, <<i>>)]
    /\ faults' = faults + 1
    /\ UNCHANGED <<stream, delivered, sends, pumpRet, log, acked, game>>

\* The client sends messages to the server; the network keeps the order of
\* the datagrams and loses finitely many of them; neither side disconnects.
NextFiniteLoss ==
    \/ (sends["client"] < MaxLossySends /\ DoSend("client"))
    \/ DoRecieve("server")
    \/ \E e \in Endpoints : DoPumpInOrder(e)
    \/ QuietTick
    \/ \E e \in Endpoints : LoseSome(e)

\* Both streams are pumped again and again (GameClient::Poll), a datagram on
\* the wire is eventually read, the application takes what Recieve offers,
\* and time does not stop.
FairFiniteLoss ==
    /\ WF_vars(QuietTick)
    /\ WF_vars(DoRecieve("server"))
    /\ \A e \in Endpoints : WF_vars(PumpIdle(e))
    /\ \A e \in Endpoints : ReadFair(e)

SpecFiniteLoss == InitEstablished /\ [][NextFiniteLoss]_vars /\ FairFiniteLoss

\* C25: over a network that loses finitely many datagrams, every message
\* accepted by Send on the Established client is eventually returned by the
\* server's Recieve, as long as neither side disconnects.
C25_ReliableDelivery ==
    \A k \in 1..MaxLossySends :
        (sends["client"] >= k) ~> Member(Payloads(delivered["server"]), k)


\* The SYN and SYN_ACK packets on their way to e.
HandshakePacketsTo(e) ==
    {DecodeReliablePacket(wire[e][i]) :
        i \in {k \in SeqIndex(wire[e]) :
                 wire[e][k].Header.opcode \in {"SYN", "SYN_ACK"}}}

\* C26: a stream that is Established only ever changes its state to Closing,
\* Closed or (on RST) Listening, and a late or repeated SYN or SYN_ACK that
\* it handles moves it neither back to SynRecieved nor changes its
\* RemoteSequenceIndex or SequenceIndex.
C26_NoStateRegression ==
    /\ [][\A e \in Endpoints :
            stream[e].State = "Established"
                => stream'[e].State \in {"Established", "Closing", "Closed",
                                         "Listening"}]_vars
    /\ [](\A e \in Endpoints :
            stream[e].State = "Established"
                => \A Pkt \in HandshakePacketsTo(e) :
                      LET r == HandleIncomingPacket(stream[e], Pkt)
                      IN  /\ r.State = "Established"
                          /\ r.RemoteSequenceIndex
                                 = stream[e].RemoteSequenceIndex
                          /\ r.SequenceIndex = stream[e].SequenceIndex)


\* The client sends, time passes so that packets are retransmitted, and the
\* stream is reset: the client disconnects, or an RST arrives at it.
NextStale ==
    \/ (sends["client"] < MaxLossySends /\ DoSend("client"))
    \/ DoDisconnect("client")
    \/ \E e \in Endpoints : DoPump(e)
    \/ QuietTick
    \/ Lose("server")
    \/ PeerSendsRst("client")

SpecStale == InitEstablished /\ [][NextStale]_vars

\* C27: is_retransmitting is true only if RetransmitBuffer still holds the
\* packet whose local_ack is RetransmittingIndex; after a reset of the stream
\* (RST handled, or Closed) the stream is not left retransmitting.  Only
\* Pump changes IsRetransmitting or the buffer, so this holds in every state
\* exactly if it holds at the end of every pump.
C27_RetransmitCursor ==
    \A e \in Endpoints :
        stream[e].IsRetransmitting
            => HasPacketWithLocalSequence(stream[e].RetransmitBuffer,
                                          stream[e].RetransmittingIndex)


\* C28: a client from which datagrams keep arriving at intervals shorter than
\* CLIENT_TIMEOUT is never disconnected by the idle-timeout check of Poll
\* (the return taken before Connection->Pump() is called).
C28_ActiveClientKept ==
    (game.PollRet /\ ~game.ConnectionPumped) => game.MaxIdle >= CLIENT_TIMEOUT

=============================================================================
